---- MODULE Spec2Model ----
(***************************************************************************)
(* A model of fast_gmail/message.py: the label state machine of Message    *)
(* (_edit_labels and the operations built on it), Attachment.download and  *)
(* Attachment.save, and the content extraction of Message._content.        *)
(***************************************************************************)
EXTENDS Integers, Sequences, FiniteSets, TLC

\* ------------------------------------------------------------------ bounds
\* longest labelIds list a message is constructed with
MaxInitLen == 1
\* longest list passed to add_labels / remove_labels / modify_labels
MaxArgLen == 2
\* number of operations called in one run
MaxOps == 2

\* ------------------------------------------------------------ Python values
\* An optional list: Python's None, or a list.
Nothing == [none |-> TRUE, items |-> << >>]

Some(s) == [none |-> FALSE, items |-> s]

Range(s) == {s[i] : i \in 1..Len(s)}

SeqsUpTo(S, n) == UNION {[1..k -> S] : k \in 0..n}

NoDup(s) == \A i, j \in 1..Len(s) : i # j => s[i] # s[j]

\* Python truthiness of an optional list: None and [] are falsy.
Truthy(l) == ~l.none /\ Len(l.items) > 0

\* The labels of an optional list, as a set.
SetOf(l) == IF l.none THEN {} ELSE Range(l.items)

\* ------------------------------------------------------------------ labels
\* The well-known labels the operations name, and one user label.
Labels == {"UNREAD", "STARRED", "IMPORTANT", "SPAM", "DRAFT", "TRASH", "INBOX", "Label_1"}

\* The labels the list-taking operations are called with.
ArgLabels == {"STARRED", "Label_1"}

ArgLists == {Some(s) : s \in SeqsUpTo(ArgLabels, MaxArgLen)}

\* Outcomes of one remote call.
RemoteOutcomes == {"ok", "HttpError"}

VARIABLES
    labelIds,       \* Message.labelIds: None or a list
    remote,         \* the labels the remote holds for the message
    call,           \* the last operation called, with its arguments
    result,         \* how the last operation ended: a return value or the exception raised
    before,         \* labelIds when the last operation was called
    request,        \* the body of the modify request of the last operation
    remoteOutcome,  \* how the remote call of the last operation ended ("none": no call)
    events,         \* the request / close events of the last operation, in order
    prior,          \* the operation called before the last one, kept for the repeated ones
    nOps,           \* number of operations called
    att,            \* the Attachment: its id and its data
    message_id,     \* google_service.message_id of the attachment
    files,          \* the file system: path -> file
    stored,         \* a download has stored a decoded payload
    payload,        \* Message.payload: the root of the part tree
    content,        \* what Message._content() returned or raised
    text,           \* what Message.html, plain or body returned or raised
    parent,         \* a MessagePart whose attachments are listed
    listing,        \* the list MessagePart.attachments returned
    labels,         \* Message.labels: None or the list of resolved labels
    resolve,        \* the batch of the last get_labels: its requests and their outcomes
    target          \* the object the caller works on: the message or an attachment

labelVars == <<labelIds, remote, before, request, remoteOutcome>>

attVars == <<att, message_id, files, stored>>

contentVars == <<payload, content, text, parent, listing>>

resolveVars == <<labels, resolve>>

vars == <<labelIds, remote, call, result, before, request, remoteOutcome, events, prior,
          nOps, att, message_id, files, stored, payload, content, text, parent, listing,
          labels, resolve, target>>

NoCall == [name |-> "init", add |-> Nothing, remove |-> Nothing,
           filepath |-> "None", overwrite |-> FALSE]

NoRequest == [sent |-> FALSE, addLabelIds |-> Nothing, removeLabelIds |-> Nothing]

NoPrior == [name |-> "none", before |-> Nothing, remoteOutcome |-> "none"]

NoResolve == [requests |-> << >>, executed |-> 0, labels |-> Nothing]

\* No call is under way or awaiting the caller: the record of the last call is empty.
Idle ==
    /\ call = NoCall
    /\ result = "none"
    /\ events = << >>

\* An operation is called once the previous one has returned, MaxOps times at most.
Ready == Idle /\ nOps < MaxOps

\* ------------------------------------------------------- flag properties
HasLabel(ids, label) == IF ~Truthy(ids) THEN FALSE ELSE label \in Range(ids.items)

is_unread(ids) == HasLabel(ids, "UNREAD")

is_starred(ids) == HasLabel(ids, "STARRED")

is_important(ids) == HasLabel(ids, "IMPORTANT")

is_spam(ids) == HasLabel(ids, "SPAM")

is_draft(ids) == HasLabel(ids, "DRAFT")

is_trash(ids) == HasLabel(ids, "TRASH")

\* ---------------------------------------------------------- _edit_labels
\* A variant with the membership test inverted: it appends the labels already present.
RECURSIVE AppendEachPresent(_, _)
AppendEachPresent(s, add) ==
    IF add = << >> THEN s
    ELSE AppendEachPresent(IF Head(add) \notin Range(s) THEN s ELSE Append(s, Head(add)),
                           Tail(add))

\* A variant without the membership test: it appends every label of the list.
AppendEachAlways(s, add) == s \o add

\* for label in add: if label not in labelIds: labelIds.append(label)
RECURSIVE AppendEach(_, _)
AppendEach(s, add) ==
    IF add = << >> THEN s
    ELSE AppendEach(IF Head(add) \in Range(s) THEN s ELSE Append(s, Head(add)), Tail(add))

\* list.remove(x): drops the first occurrence of x
RemoveFirst(s, x) ==
    IF x \notin Range(s) THEN s
    ELSE LET i == CHOOSE k \in 1..Len(s) : s[k] = x /\ \A m \in 1..(k - 1) : s[m] # x
         IN  SubSeq(s, 1, i - 1) \o SubSeq(s, i + 1, Len(s))

\* for label in remove: if label in labelIds: labelIds.remove(label)
RECURSIVE RemoveEach(_, _)
RemoveEach(s, remove) ==
    IF remove = << >> THEN s
    ELSE RemoveEach(RemoveFirst(s, Head(remove)), Tail(remove))

\* The request body built before the call: a key is present only for the action's lists.
Payload(action, add, remove) ==
    [sent |-> TRUE,
     addLabelIds |-> IF action \in {"ADD", "TOGGLE"} THEN Some(add.items) ELSE Nothing,
     removeLabelIds |-> IF action \in {"REMOVE", "TOGGLE"} THEN Some(remove.items) ELSE Nothing]

\* [x for x in None] raises TypeError while the request body is built.
PayloadRaises(action, add, remove) ==
    \/ action \in {"REMOVE", "TOGGLE"} /\ remove.none
    \/ action \in {"ADD", "TOGGLE"} /\ add.none

\* The local update after a successful call; `label in None` raises TypeError.
LocalUpdate(action, add, remove, ids) ==
    LET adds == IF action \in {"ADD", "TOGGLE"} THEN add.items ELSE << >>
        rems == IF action \in {"REMOVE", "TOGGLE"} THEN remove.items ELSE << >>
    IN  IF ids.none
        THEN [labelIds |-> ids,
              result |-> IF adds = << >> /\ rems = << >> THEN "True" ELSE "TypeError"]
        ELSE [labelIds |-> Some(RemoveEach(AppendEach(ids.items, adds), rems)),
              result |-> "True"]

\* A variant that updates local state before the outcome of the call is known.
EditLabelsEager(action, add, remove, ids, outcome) ==
    IF PayloadRaises(action, add, remove)
    THEN [labelIds |-> ids, result |-> "TypeError", request |-> NoRequest, events |-> << >>]
    ELSE LET u == LocalUpdate(action, add, remove, ids)
         IN  [labelIds |-> u.labelIds,
              result |-> IF outcome = "ok" THEN u.result ELSE outcome,
              request |-> Payload(action, add, remove),
              events |-> <<"request", "close">>]

\* A variant without the finally clause: the handle is closed on success only.
EditLabelsNoFinally(action, add, remove, ids, outcome) ==
    IF PayloadRaises(action, add, remove)
    THEN [labelIds |-> ids, result |-> "TypeError", request |-> NoRequest, events |-> << >>]
    ELSE IF outcome # "ok"
    THEN [labelIds |-> ids, result |-> outcome,
          request |-> Payload(action, add, remove), events |-> <<"request">>]
    ELSE LET u == LocalUpdate(action, add, remove, ids)
         IN  [labelIds |-> u.labelIds, result |-> u.result,
              request |-> Payload(action, add, remove),
              events |-> IF u.result = "True" THEN <<"request", "close">> ELSE <<"request">>]

\* Message._edit_labels: build the body, call modify, update labelIds, close.
EditLabels(action, add, remove, ids, outcome) ==
    IF PayloadRaises(action, add, remove)
    THEN [labelIds |-> ids, result |-> "TypeError", request |-> NoRequest, events |-> << >>]
    ELSE IF outcome # "ok"
    THEN [labelIds |-> ids, result |-> outcome,
          request |-> Payload(action, add, remove), events |-> <<"request", "close">>]
    ELSE LET u == LocalUpdate(action, add, remove, ids)
         IN  [labelIds |-> u.labelIds, result |-> u.result,
              request |-> Payload(action, add, remove), events |-> <<"request", "close">>]

\* The remote's modify: it applies addLabelIds and removeLabelIds of the request.
RemoteModify(held, req) == (held \cup SetOf(req.addLabelIds)) \ SetOf(req.removeLabelIds)

\* The operations whose repetition is examined.
RepeatedOps == {"toggle_starred", "mark_as_read"}

\* One call of an operation that funnels into _edit_labels.
DoEdit(name, action, add, remove) ==
    /\ Ready
    /\ \E outcome \in RemoteOutcomes :
         \E r \in {EditLabels(action, add, remove, labelIds, outcome)} :
             /\ labelIds' = r.labelIds
             /\ remote' = IF r.request.sent /\ outcome = "ok"
                          THEN RemoteModify(remote, r.request) ELSE remote
             /\ call' = [name |-> name, add |-> add, remove |-> remove,
                         filepath |-> "None", overwrite |-> FALSE]
             /\ result' = r.result
             /\ before' = labelIds
             /\ request' = r.request
             /\ remoteOutcome' = IF r.request.sent THEN outcome ELSE "none"
             /\ events' = r.events
    /\ nOps' = nOps + 1
    /\ UNCHANGED <<prior, attVars, contentVars, target,
                 resolveVars>>

add_label == Ready /\ \E l \in Labels : DoEdit("add_label", "ADD", Some(<<l>>), Some(<< >>))

add_labels == Ready /\ \E ls \in ArgLists : DoEdit("add_labels", "ADD", ls, Some(<< >>))

remove_label == Ready /\ \E l \in Labels : DoEdit("remove_label", "REMOVE", Some(<< >>), Some(<<l>>))

remove_labels == Ready /\ \E ls \in ArgLists : DoEdit("remove_labels", "REMOVE", Some(<< >>), ls)

\* The argument pairs modify_labels is called with; None is paired with an empty list.
ModifyArgs ==
    {p \in (ArgLists \cup {Nothing}) \X (ArgLists \cup {Nothing}) :
        /\ Len(p[1].items) + Len(p[2].items) <= MaxArgLen
        /\ (p[1].none \/ p[2].none) => (p[1].items = << >> /\ p[2].items = << >>)}

modify_labels ==
    Ready /\ \E p \in ModifyArgs : DoEdit("modify_labels", "TOGGLE", p[1], p[2])

mark_as_read == DoEdit("mark_as_read", "REMOVE", Some(<< >>), Some(<<"UNREAD">>))

mark_as_unread == DoEdit("mark_as_unread", "ADD", Some(<<"UNREAD">>), Some(<< >>))

toggle_read_unread ==
    IF is_unread(labelIds)
    THEN DoEdit("toggle_read_unread", "REMOVE", Some(<< >>), Some(<<"UNREAD">>))
    ELSE DoEdit("toggle_read_unread", "ADD", Some(<<"UNREAD">>), Some(<< >>))

SpamRemoveShort == Some(<<"TRASH", "STARRED", "IMPORTANT">>)

SpamRemove == Some(<<"TRASH", "INBOX", "STARRED", "IMPORTANT">>)

MarkSpam(name) == DoEdit(name, "TOGGLE", Some(<<"SPAM">>), SpamRemove)

MarkNotSpam(name) == DoEdit(name, "TOGGLE", Some(<<"INBOX">>), Some(<<"SPAM">>))

mark_spam == MarkSpam("mark_spam")

mark_not_spam == MarkNotSpam("mark_not_spam")

toggle_spam ==
    IF is_spam(labelIds) THEN MarkNotSpam("toggle_spam") ELSE MarkSpam("toggle_spam")

MoveToTrash(name) ==
    DoEdit(name, "TOGGLE", Some(<<"TRASH">>), Some(<<"INBOX", "STARRED", "IMPORTANT">>))

MoveFromTrash(name) == DoEdit(name, "TOGGLE", Some(<<"INBOX">>), Some(<<"TRASH">>))

move_to_trash == MoveToTrash("move_to_trash")

move_from_trash == MoveFromTrash("move_from_trash")

toggle_trash ==
    IF is_trash(labelIds) THEN MoveFromTrash("toggle_trash") ELSE MoveToTrash("toggle_trash")

MarkImportant(name) == DoEdit(name, "ADD", Some(<<"IMPORTANT">>), Some(<< >>))

MarkNotImportant(name) == DoEdit(name, "REMOVE", Some(<< >>), Some(<<"IMPORTANT">>))

mark_important == MarkImportant("mark_important")

mark_not_important == MarkNotImportant("mark_not_important")

toggle_important ==
    IF is_important(labelIds)
    THEN MarkNotImportant("toggle_important")
    ELSE MarkImportant("toggle_important")

MarkStarred(name) == DoEdit(name, "ADD", Some(<<"STARRED">>), Some(<< >>))

MarkNotStarred(name) == DoEdit(name, "REMOVE", Some(<< >>), Some(<<"STARRED">>))

mark_starred == MarkStarred("mark_starred")

mark_not_starred == MarkNotStarred("mark_not_starred")

\* A variant that stars whatever the current state is.
toggle_starred_always_star == MarkStarred("toggle_starred")

toggle_starred ==
    IF is_starred(labelIds)
    THEN MarkNotStarred("toggle_starred")
    ELSE MarkStarred("toggle_starred")

\* Message.__init__: labelIds is the list of the JSON, or None when the key is absent.
InitLabelIds == {Nothing} \cup {Some(s) : s \in {t \in SeqsUpTo(Labels, MaxInitLen) : NoDup(t)}}

LabelsStart(ids) ==
    /\ labelIds = ids
    /\ remote = SetOf(labelIds)
    /\ before = labelIds
    /\ request = NoRequest
    /\ remoteOutcome = "none"
    /\ prior = NoPrior
    /\ labels = Nothing
    /\ resolve = NoResolve

NextLabels ==
    \/ add_label
    \/ add_labels
    \/ remove_label
    \/ remove_labels
    \/ modify_labels
    \/ mark_as_read
    \/ mark_as_unread
    \/ toggle_read_unread
    \/ mark_spam
    \/ mark_not_spam
    \/ toggle_spam
    \/ move_to_trash
    \/ move_from_trash
    \/ toggle_trash
    \/ mark_important
    \/ mark_not_important
    \/ toggle_important
    \/ mark_starred
    \/ mark_not_starred
    \/ toggle_starred

\* --------------------------------------------------------------- get_labels
\* longest labelIds list of a message whose labels are resolved
MaxResolveLen == 2

\* A variant of the callback that drops a failed response and goes on.
get_label_response_lenient(labs, id, outcome) ==
    IF outcome # "ok" THEN [raises |-> "none", labels |-> labs]
    ELSE [raises |-> "none", labels |-> Append(labs, id)]

\* The callback of one request: raise the exception of a failed get, append the
\* label of a successful one (the label is kept as its id).
get_label_response(labs, id, outcome) ==
    IF outcome # "ok" THEN [raises |-> outcome, labels |-> labs]
    ELSE [raises |-> "none", labels |-> Append(labs, id)]

\* batch.execute(): the requests go out together, then the callback of each one is
\* called in the order of batch.add with its response or its exception; an
\* exception out of a callback ends execute.
RECURSIVE Execute(_, _, _)
Execute(reqs, i, labs) ==
    IF i > Len(reqs) THEN [result |-> "list", labels |-> labs]
    ELSE LET r == get_label_response(labs, reqs[i].id, reqs[i].outcome)
         IN  IF r.raises # "none" THEN [result |-> r.raises, labels |-> r.labels]
             ELSE Execute(reqs, i + 1, r.labels)

\* Message.get_labels: labels becomes [] when falsy, one request is added per label
\* id (`for label_id in None` raises TypeError), the batch is executed.
GetLabels(ids, labs, outcomes) ==
    LET start == IF Truthy(labs) THEN labs.items ELSE << >>
        reqs == [i \in 1..Len(ids.items) |-> [id |-> ids.items[i], outcome |-> outcomes[i]]]
    IN  IF ids.none
        THEN [result |-> "TypeError", labels |-> Some(start), requests |-> << >>,
              executed |-> 0]
        ELSE LET e == Execute(reqs, 1, start)
             IN  [result |-> e.result, labels |-> Some(e.labels), requests |-> reqs,
                  executed |-> 1]

get_labels ==
    /\ Ready
    /\ \E outcomes \in [1..Len(labelIds.items) -> RemoteOutcomes] :
         \E r \in {GetLabels(labelIds, labels, outcomes)} :
             /\ labels' = r.labels
             /\ result' = r.result
             /\ resolve' = [requests |-> r.requests, executed |-> r.executed,
                            labels |-> labels]
    /\ call' = [NoCall EXCEPT !.name = "get_labels"]
    /\ events' = << >>
    /\ nOps' = nOps + 1
    /\ UNCHANGED <<labelVars, prior, attVars, contentVars, target>>

ResolveLabelIds ==
    {Nothing} \cup {Some(t) : t \in {u \in SeqsUpTo(Labels, MaxResolveLen) : NoDup(u)}}

NextResolve == get_labels

\* ------------------------------------------------------------- attachments
\* Python values of Attachment.data: None, bytes or str.
PyNone == [type |-> "NoneType", val |-> << >>]

Bytes(b) == [type |-> "bytes", val |-> b]

Str(t) == [type |-> "str", val |-> t]

\* Python truthiness: None, b"" and "" are falsy.
TruthyVal(v) == v.type # "NoneType" /\ v.val # << >>

\* A base64url string is a sequence of 6-bit digits; Pad stands for '='.
Pad == 64

\* The bytes of one group of four characters.
QuadBytes(q) ==
    LET n == q[1] * 262144 + q[2] * 4096
             + (IF q[3] = Pad THEN 0 ELSE q[3]) * 64 + (IF q[4] = Pad THEN 0 ELSE q[4])
        b == <<n \div 65536, (n \div 256) % 256, n % 256>>
    IN  IF q[3] = Pad THEN SubSeq(b, 1, 1) ELSE IF q[4] = Pad THEN SubSeq(b, 1, 2) ELSE b

\* base64.urlsafe_b64decode raises binascii.Error on a string that is not padded to groups of four.
B64Valid(t) == Len(t) % 4 = 0

RECURSIVE B64Decode(_)
B64Decode(t) ==
    IF t = << >> THEN << >>
    ELSE QuadBytes(SubSeq(t, 1, 4)) \o B64Decode(SubSeq(t, 5, Len(t)))

\* most groups of four characters in a payload the server returns
MaxQuads == 1

\* "QUJD" = b"ABC"
FullQuads == {<<16, 20, 9, 3>>}

\* "QQ==" = b"A", "Qg==" = b"B"
FinalQuads == FullQuads \cup {<<16, 16, Pad, Pad>>, <<16, 32, Pad, Pad>>}

RECURSIVE FullStrings(_)
FullStrings(n) ==
    IF n = 0 THEN {<< >>}
    ELSE {<< >>} \cup {q \o t : q \in FullQuads, t \in FullStrings(n - 1)}

\* The payloads of attachments.get: well-formed strings, and one cut short ("QQ").
ServerPayloads ==
    {<< >>, <<16, 16>>} \cup {t \o q : t \in FullStrings(MaxQuads - 1), q \in FinalQuads}

\* What attachments.get(...).execute() does: raise, or return a falsy value, a
\* resource without "data", or a resource with "data".
Responses ==
    {[kind |-> k, data |-> << >>] : k \in {"HttpError", "empty", "nodata"}}
    \cup {[kind |-> "data", data |-> d] : d \in ServerPayloads}

Filename == "a_b.png"

Paths == {Filename, "out.bin"}

NoFile == [exists |-> FALSE, bytes |-> << >>]

OldFile == [exists |-> TRUE, bytes |-> <<1>>]

Returned(a) == [att |-> a, result |-> "None", events |-> << >>, stores |-> FALSE]

\* `if self.data: return None`
DataPresent(a) == TruthyVal(a.data)

\* Attachment.download
Download(a, mid, resp) ==
    IF a.id = "None" \/ DataPresent(a) THEN Returned(a)
    ELSE IF mid = "None" THEN [Returned(a) EXCEPT !.result = "TypeError_message_id"]
    ELSE IF resp.kind = "HttpError"
    THEN [att |-> a, result |-> "HttpError", events |-> <<"request", "close">>,
          stores |-> FALSE]
    ELSE IF resp.kind \in {"empty", "nodata"}
    THEN [att |-> a, result |-> "None", events |-> <<"request", "close">>, stores |-> FALSE]
    ELSE IF ~B64Valid(resp.data)
    THEN [att |-> a, result |-> "binascii.Error", events |-> <<"request", "close">>,
          stores |-> FALSE]
    ELSE [att |-> [a EXCEPT !.data = Bytes(B64Decode(resp.data))], result |-> "None",
          events |-> <<"request", "close">>, stores |-> TRUE]

\* Attachment.save: the path, the download when data is falsy, the exists test, the write.
\* open(path, "wb") truncates the file before f.write(data) can raise TypeError.
Save(a, mid, fs, filepath, overwrite, resp) ==
    LET path == IF filepath = "None" THEN Filename ELSE filepath
        d == IF TruthyVal(a.data) THEN Returned(a) ELSE Download(a, mid, resp)
    IN  IF d.result # "None"
        THEN [att |-> d.att, files |-> fs, result |-> d.result, events |-> d.events,
              stores |-> d.stores]
        ELSE IF fs[path].exists /\ ~overwrite
        THEN [att |-> d.att, files |-> fs, result |-> "FileExistsError",
              events |-> d.events, stores |-> d.stores]
        ELSE IF d.att.data.type # "bytes"
        THEN [att |-> d.att, files |-> [fs EXCEPT ![path] = [exists |-> TRUE, bytes |-> << >>]],
              result |-> "TypeError", events |-> d.events, stores |-> d.stores]
        ELSE [att |-> d.att,
              files |-> [fs EXCEPT ![path] = [exists |-> TRUE, bytes |-> d.att.data.val]],
              result |-> "None", events |-> d.events, stores |-> d.stores]

download ==
    /\ Ready
    /\ \E resp \in Responses :
         \E r \in {Download(att, message_id, resp)} :
             /\ att' = r.att
             /\ result' = r.result
             /\ events' = r.events
             /\ stored' = (stored \/ r.stores)
    /\ call' = [NoCall EXCEPT !.name = "download"]
    /\ nOps' = nOps + 1
    /\ UNCHANGED <<message_id, files, labelVars, prior, contentVars, target,
                 resolveVars>>

save ==
    /\ Ready
    /\ \E filepath \in {"None"} \cup Paths, overwrite \in BOOLEAN, resp \in Responses :
         \E r \in {Save(att, message_id, files, filepath, overwrite, resp)} :
             /\ att' = r.att
             /\ files' = r.files
             /\ result' = r.result
             /\ events' = r.events
             /\ stored' = (stored \/ r.stores)
             /\ call' = [NoCall EXCEPT !.name = "save", !.filepath = filepath,
                                       !.overwrite = overwrite]
    /\ nOps' = nOps + 1
    /\ UNCHANGED <<message_id, labelVars, prior, contentVars, target,
                 resolveVars>>

\* Attachment.__init__, as MessagePart.attachments or a caller constructs it.
InitAttachments ==
    [id : {"None", "att-1"}, data : {PyNone, Str(<<16, 16, Pad, Pad>>)}]

AttachmentStart(a, mid, fs) ==
    /\ att = a
    /\ message_id = mid
    /\ files = fs
    /\ stored = FALSE

NextAttachment == download \/ save

\* ------------------------------------------------------- content extraction
\* most parts in a part tree, the root included
MaxParts == 3

MimeTypes == {"text/plain", "text/html", "multipart/mixed"}

TextTypes == {"text/plain", "text/html"}

\* MessagePart.body: None, or a MessagePartBody whose data is None, "", "QQ==" or "Qg==".
NoBody == [present |-> FALSE, data |-> PyNone]

Bodies ==
    {NoBody} \cup {[present |-> TRUE, data |-> d] :
                      d \in {PyNone, Str(<< >>), Str(<<16, 16, Pad, Pad>>),
                             Str(<<16, 32, Pad, Pad>>)}}

MessagePart(m, b, kids) == [mimeType |-> m, body |-> b, parts |-> kids]

\* The shapes of a part tree of n parts: the depth of each part, in document order.
ShapesOf(n) ==
    {d \in [1..n -> 0..(n - 1)] :
        d[1] = 0 /\ \A i \in 2..n : d[i] >= 1 /\ d[i] <= d[i - 1] + 1}

\* The last part of the subtree of part i, scanning from part j.
RECURSIVE SubtreeEnd(_, _, _)
SubtreeEnd(d, i, j) ==
    IF j < Len(d) /\ d[j + 1] > d[i] THEN SubtreeEnd(d, i, j + 1) ELSE j

\* MessagePart.__init__ on the JSON of part i: its mimeType and body (a[i]) and,
\* recursively, its parts, from part j on.
RECURSIVE BuildPart(_, _, _), BuildParts(_, _, _, _)
BuildPart(d, a, i) == MessagePart(a[i][1], a[i][2], BuildParts(d, a, i, i + 1))

BuildParts(d, a, i, j) ==
    IF j > SubtreeEnd(d, i, i) THEN << >>
    ELSE <<BuildPart(d, a, j)>> \o BuildParts(d, a, i, SubtreeEnd(d, j, j) + 1)

\* base64.urlsafe_b64decode(data).decode("utf-8"): the characters of ASCII bytes.
DecodeText(t) == Str(B64Decode(t))

List(items) == [type |-> "list", val |-> items]

EmptyDict == [k \in {} |-> List(<< >>)]

RECURSIVE ExtractContent(_, _), ExtractEach(_, _)

\* A variant that walks the sub-parts of every part, the text parts included.
ExtractContentDeep(part, res) ==
    LET r1 == ExtractEach(part.parts, res)
        r2 == IF part.mimeType \in DOMAIN r1 THEN r1 ELSE r1 @@ (part.mimeType :> List(<< >>))
    IN  IF ~part.body.present \/ ~TruthyVal(part.body.data) THEN r2
        ELSE [r2 EXCEPT ![part.mimeType] =
                 List(Append(@.val, DecodeText(part.body.data.val)))]

\* Message._extract_content, and its loop over the sub-parts.
ExtractContent(part, res) ==
    LET r1 == IF part.mimeType \notin TextTypes THEN ExtractEach(part.parts, res) ELSE res
        r2 == IF part.mimeType \in DOMAIN r1 THEN r1 ELSE r1 @@ (part.mimeType :> List(<< >>))
    IN  IF ~part.body.present \/ ~TruthyVal(part.body.data) THEN r2
        ELSE [r2 EXCEPT ![part.mimeType] =
                 List(Append(@.val, DecodeText(part.body.data.val)))]

ExtractEach(kids, res) ==
    IF kids = << >> THEN res
    ELSE ExtractEach(Tail(kids), ExtractContent(Head(kids), res))

NotComputed == [raises |-> "none", kind |-> "unset", map |-> EmptyDict]

Raised(e) == [raises |-> e, kind |-> "unset", map |-> EmptyDict]

ReturnedNone == [raises |-> "none", kind |-> "None", map |-> EmptyDict]

ReturnedDict(m) == [raises |-> "none", kind |-> "dict", map |-> m]

\* Message._content: a root without parts is decoded on the spot, the parts of
\* another root are walked. urlsafe_b64decode(None) raises TypeError.
Content(root) ==
    IF root.parts = << >>
    THEN IF root.mimeType \in TextTypes /\ root.body.present /\ TruthyVal(root.body.data)
         THEN ReturnedDict(root.mimeType :> List(<<DecodeText(root.body.data.val)>>))
         ELSE IF ~root.body.present THEN ReturnedNone
         ELSE IF root.body.data.type = "NoneType" THEN Raised("TypeError")
         ELSE ReturnedDict("multipart/alternative" :> DecodeText(root.body.data.val))
    ELSE ReturnedDict(ExtractEach(root.parts, EmptyDict))

_content ==
    /\ Ready
    /\ content' = Content(payload)
    /\ call' = [NoCall EXCEPT !.name = "_content"]
    /\ result' = "none"
    /\ events' = << >>
    /\ nOps' = nOps + 1
    /\ UNCHANGED <<payload, text, parent, listing, labelVars, prior, attVars, target,
                 resolveVars>>

NextContent == _content

\* ------------------------------------------------------- html, plain, body
\* " ".join(items): the strings of the list with a space (32) between them.
RECURSIVE Join(_)
Join(items) ==
    IF items = << >> THEN << >>
    ELSE IF Len(items) = 1 THEN items[1].val
    ELSE items[1].val \o <<32>> \o Join(Tail(items))

NoText == [raises |-> "none", val |-> PyNone]

ReturnedText(t) == [raises |-> "none", val |-> Str(t)]

\* The body of Message.html and Message.plain on what _content() gave: "" without
\* content or without the key, the joined list of the key otherwise; an exception
\* of _content() comes out of the property.
TextOf(c, key) ==
    IF c.raises # "none" THEN [raises |-> c.raises, val |-> PyNone]
    ELSE IF c.kind = "None" \/ DOMAIN c.map = {} THEN ReturnedText(<< >>)
    ELSE IF key \notin DOMAIN c.map THEN ReturnedText(<< >>)
    ELSE ReturnedText(Join(c.map[key].val))

Html(root) == TextOf(Content(root), "text/html")

Plain(root) == TextOf(Content(root), "text/plain")

\* Message.body: self.html if self.html and len(self.html) > 0 else self.plain
Body(root) ==
    LET h == Html(root)
    IN  IF h.raises # "none" THEN h
        ELSE IF h.val.val # << >> THEN h
        ELSE Plain(root)

\* One read of a property of the message: nothing of the message changes.
ReadText(name, t) ==
    /\ Idle
    /\ text' = t
    /\ call' = [NoCall EXCEPT !.name = name]
    /\ result' = "none"
    /\ events' = << >>
    /\ UNCHANGED <<payload, content, parent, listing, nOps, labelVars, prior, attVars, target,
                 resolveVars>>

html == ReadText("html", Html(payload))

plain == ReadText("plain", Plain(payload))

body == ReadText("body", Body(payload))

NextText == html \/ plain \/ body

\* ------------------------------------------------------------- attachments of a part
\* most children of the part whose attachments are listed
MaxChildren == 2

Slash == 47

Underscore == 95

\* MessagePart.filename: None, "", "a/b" or "c".
Filenames == {PyNone, Str(<< >>), Str(<<97, Slash, 98>>), Str(<<99>>)}

\* MessagePart.body of a child: None, or a MessagePartBody with or without an
\* attachmentId and with or without inline data.
ChildBodies ==
    {[present |-> FALSE, attachmentId |-> "None", data |-> PyNone]}
    \cup {[present |-> TRUE, attachmentId |-> i, data |-> d] :
             i \in {"None", "att-1"}, d \in {PyNone, Str(<<16, 16, Pad, Pad>>)}}

\* MessagePart.__init__ on the JSON of a child: an absent key gives None.
Children ==
    [filename : Filenames, mimeType : {"None", "image/png"}, partId : {"None", "1"},
     body : ChildBodies]

LonePart == [filename |-> PyNone, parts |-> << >>]

\* str.replace("/", "_")
Replace(t) == [i \in 1..Len(t) |-> IF t[i] = Slash THEN Underscore ELSE t[i]]

\* MessagePart._has_attachments: the filename of the part, then of each child.
HasAttachments(p) ==
    \/ TruthyVal(p.filename)
    \/ \E i \in 1..Len(p.parts) : TruthyVal(p.parts[i].filename)

\* Attachment.__init__ as MessagePart.attachments calls it for a child.
AttachmentOf(c) ==
    [filename |-> Str(Replace(c.filename.val)),
     mimeType |-> IF c.mimeType \in {"None", ""} THEN "" ELSE c.mimeType,
     id |-> IF c.body.attachmentId \in {"None", ""} THEN "None" ELSE c.body.attachmentId,
     data |-> IF c.body.attachmentId \in {"None", ""} THEN c.body.data ELSE PyNone,
     part_id |-> c.partId]

\* The loop of MessagePart.attachments: part.body.attachmentId of a child without
\* a body raises AttributeError.
RECURSIVE ListAttachments(_, _)
ListAttachments(kids, acc) ==
    IF kids = << >> THEN [result |-> "list", val |-> acc]
    ELSE IF ~TruthyVal(Head(kids).filename) THEN ListAttachments(Tail(kids), acc)
    ELSE IF ~Head(kids).body.present THEN [result |-> "AttributeError", val |-> << >>]
    ELSE ListAttachments(Tail(kids), Append(acc, AttachmentOf(Head(kids))))

\* MessagePart.attachments
Attachments(p) ==
    IF ~HasAttachments(p) THEN [result |-> "list", val |-> << >>]
    ELSE ListAttachments(p.parts, << >>)

\* One read of the part: nothing of the part changes.
ReadPart(name, res, val) ==
    /\ Idle
    /\ call' = [NoCall EXCEPT !.name = name]
    /\ result' = res
    /\ listing' = val
    /\ events' = << >>
    /\ UNCHANGED <<payload, content, text, parent, nOps, labelVars, prior, attVars, target,
                 resolveVars>>

_has_attachments ==
    ReadPart("_has_attachments", IF HasAttachments(parent) THEN "True" ELSE "False", << >>)

attachments == \E r \in {Attachments(parent)} : ReadPart("attachments", r.result, r.val)

NextParts == _has_attachments \/ attachments

\* ------------------------------------------------------------ specifications
\* The caller has the result of the call (a value or an exception) and goes on: the
\* record of the call is dropped, and a repeated operation is remembered in prior.
Resume ==
    /\ call # NoCall
    /\ call' = NoCall
    /\ result' = "none"
    /\ events' = << >>
    /\ before' = labelIds
    /\ request' = NoRequest
    /\ remoteOutcome' = "none"
    /\ prior' = IF call.name \in RepeatedOps
                THEN [name |-> call.name, before |-> before, remoteOutcome |-> remoteOutcome]
                ELSE NoPrior
    /\ text' = NoText
    /\ listing' = << >>
    /\ resolve' = NoResolve
    /\ UNCHANGED <<labelIds, remote, nOps, attVars, payload, content, parent, labels, target>>

PartStart(p) == parent = p /\ listing = << >>

ContentStart(root) ==
    payload = root /\ content = NotComputed /\ text = NoText /\ PartStart(LonePart)

NoAttachment ==
    AttachmentStart([id |-> "None", data |-> PyNone], "None", [p \in Paths |-> NoFile])

EmptyMessage == ContentStart(MessagePart("text/plain", NoBody, << >>))

InitLabels ==
    /\ Idle /\ nOps = 0
    /\ target = "message"
    /\ \E ids \in InitLabelIds : LabelsStart(ids)
    /\ NoAttachment
    /\ EmptyMessage

InitAttachment ==
    /\ Idle /\ nOps = 0
    /\ target = "attachment"
    /\ LabelsStart(Nothing)
    /\ \E a \in InitAttachments, mid \in {"None", "msg-1"}, fs \in [Paths -> {NoFile, OldFile}] :
         AttachmentStart(a, mid, fs)
    /\ EmptyMessage

\* Label edits of one message.
SpecLabels == InitLabels /\ [][NextLabels \/ Resume]_vars

InitResolve ==
    /\ Idle /\ nOps = 0
    /\ target = "message"
    /\ \E ids \in ResolveLabelIds : LabelsStart(ids)
    /\ NoAttachment
    /\ EmptyMessage

\* Resolutions of the labels of one message.
SpecResolve == InitResolve /\ [][NextResolve \/ Resume]_vars

\* Downloads and saves of one attachment.
SpecAttachment == InitAttachment /\ [][NextAttachment \/ Resume]_vars

InitContent ==
    /\ Idle /\ nOps = 0
    /\ target = "message"
    /\ LabelsStart(Nothing)
    /\ NoAttachment
    /\ \E n \in 1..MaxParts :
         \E d \in ShapesOf(n), a \in [1..n -> MimeTypes \X Bodies] :
             ContentStart(BuildPart(d, a, 1))

\* Content extraction of one message.
SpecContent == InitContent /\ [][NextContent \/ Resume]_vars

\* Reads of html, plain and body of one message.
SpecText == InitContent /\ [][NextText \/ Resume]_vars

InitParts ==
    /\ Idle /\ nOps = 0
    /\ target = "message"
    /\ LabelsStart(Nothing)
    /\ NoAttachment
    /\ payload = MessagePart("text/plain", NoBody, << >>)
    /\ content = NotComputed
    /\ text = NoText
    /\ \E f \in Filenames, kids \in SeqsUpTo(Children, MaxChildren) :
         PartStart([filename |-> f, parts |-> kids])

\* Listings of the attachments of one part.
SpecParts == InitParts /\ [][NextParts \/ Resume]_vars

Init == InitLabels \/ InitAttachment

Next ==
    \/ target = "message" /\ NextLabels
    \/ target = "attachment" /\ NextAttachment
    \/ Resume

\* Every operation that uses the service handle, on a message or on an attachment.
Spec == Init /\ [][Next]_vars

\* ------------------------------------------------------------------ claims
LabelOps == {"add_label", "add_labels", "remove_label", "remove_labels", "modify_labels",
             "mark_as_read", "mark_as_unread", "toggle_read_unread", "mark_spam",
             "mark_not_spam", "toggle_spam", "move_to_trash", "move_from_trash",
             "toggle_trash", "mark_important", "mark_not_important", "toggle_important",
             "mark_starred", "mark_not_starred", "toggle_starred"}

\* C1: when the remote modify call of a label edit fails, labelIds is what it was
\* before the call and the failure is what the caller gets; labelIds changes only
\* in an edit whose remote call succeeded.
C1_FailureLeavesLabels ==
    call.name \in LabelOps =>
        /\ remoteOutcome = "HttpError" => (labelIds = before /\ result = "HttpError")
        /\ labelIds # before => (request.sent /\ remoteOutcome = "ok")

C1_Witness ==
    /\ call.name = "mark_spam"
    /\ remoteOutcome = "HttpError"
    /\ result = "HttpError"
    /\ "INBOX" \in SetOf(before)

\* C2: the labels of the local list are the labels the remote holds, after any
\* sequence of label edits, each succeeding or failing.
C2_LocalMirrorsRemote == SetOf(labelIds) = remote

WellKnown == {"UNREAD", "STARRED", "IMPORTANT", "SPAM", "DRAFT", "TRASH"}

FlagOf(label, ids) ==
    CASE label = "UNREAD" -> is_unread(ids)
      [] label = "STARRED" -> is_starred(ids)
      [] label = "IMPORTANT" -> is_important(ids)
      [] label = "SPAM" -> is_spam(ids)
      [] label = "DRAFT" -> is_draft(ids)
      [] label = "TRASH" -> is_trash(ids)

\* C3: right after an add_label(L) that returned True, for L one of the six
\* well-known labels, the flag of L read from the local list is true.
C3_AddLabelSetsFlag ==
    (call.name = "add_label" /\ result = "True" /\ call.add.items[1] \in WellKnown)
        => FlagOf(call.add.items[1], labelIds)

C3_Witness ==
    /\ call.name = "add_label"
    /\ result = "True"
    /\ call.add = Some(<<"DRAFT">>)
    /\ ~is_draft(before)
    /\ is_draft(labelIds)

\* C4: after two toggle_starred calls in a row whose remote calls both succeeded,
\* the set of labels and is_starred are what they were before the first call.
C4_ToggleStarredTwice ==
    (/\ call.name = "toggle_starred" /\ remoteOutcome = "ok"
     /\ prior.name = "toggle_starred" /\ prior.remoteOutcome = "ok")
        => /\ SetOf(labelIds) = SetOf(prior.before)
           /\ is_starred(labelIds) = is_starred(prior.before)

C4_Witness ==
    /\ call.name = "toggle_starred" /\ remoteOutcome = "ok"
    /\ prior.name = "toggle_starred" /\ prior.remoteOutcome = "ok"
    /\ "INBOX" \in SetOf(prior.before)
    /\ ~is_starred(prior.before)
    /\ is_starred(before)
    /\ ~is_starred(labelIds)

\* C5: a mark_as_read whose remote call succeeded ends without error, removes
\* UNREAD when it is present and changes nothing when it is absent; is_unread is
\* false after it, and a second one leaves the list unchanged.
C5_MarkAsReadIdempotent ==
    (call.name = "mark_as_read" /\ remoteOutcome = "ok")
        => /\ result = "True"
           /\ ~is_unread(labelIds)
           /\ SetOf(labelIds) = SetOf(before) \ {"UNREAD"}
           /\ "UNREAD" \notin SetOf(before) => labelIds = before
           /\ (prior.name = "mark_as_read" /\ prior.remoteOutcome = "ok") => labelIds = before

SpamSide == {"SPAM", "TRASH", "INBOX", "STARRED", "IMPORTANT"}

\* C6: mark_spam sends one request with addLabelIds {SPAM} and removeLabelIds
\* {TRASH, INBOX, STARRED, IMPORTANT} and, when it returns True, the list holds SPAM
\* and none of the four; mark_not_spam sends {INBOX} and {SPAM} and, when it returns
\* True, the list holds INBOX and not SPAM; every other label keeps its membership.
C6_SpamEdits ==
    /\ call.name = "mark_spam" =>
        /\ request.sent
        /\ ~request.addLabelIds.none /\ SetOf(request.addLabelIds) = {"SPAM"}
        /\ ~request.removeLabelIds.none
        /\ SetOf(request.removeLabelIds) = {"TRASH", "INBOX", "STARRED", "IMPORTANT"}
        /\ result = "True" =>
            /\ "SPAM" \in SetOf(labelIds)
            /\ SetOf(labelIds) \cap {"TRASH", "INBOX", "STARRED", "IMPORTANT"} = {}
            /\ SetOf(labelIds) \ SpamSide = SetOf(before) \ SpamSide
    /\ call.name = "mark_not_spam" =>
        /\ request.sent
        /\ ~request.addLabelIds.none /\ SetOf(request.addLabelIds) = {"INBOX"}
        /\ ~request.removeLabelIds.none /\ SetOf(request.removeLabelIds) = {"SPAM"}
        /\ result = "True" =>
            /\ "INBOX" \in SetOf(labelIds)
            /\ "SPAM" \notin SetOf(labelIds)
            /\ SetOf(labelIds) \ {"INBOX", "SPAM"} = SetOf(before) \ {"INBOX", "SPAM"}

C6_Witness ==
    /\ call.name = "mark_spam"
    /\ result = "True"
    /\ {"INBOX", "UNREAD"} \subseteq SetOf(before)
    /\ SetOf(labelIds) = {"UNREAD", "SPAM"}

\* Every request of the operation is followed by a close.
Released(ev) ==
    \A i \in 1..Len(ev) : ev[i] = "request" => \E j \in (i + 1)..Len(ev) : ev[j] = "close"

\* C7: a label edit or an attachment download that issued a request has closed
\* the service handle after it when the operation ends, whether the request
\* succeeded or failed.
C7_ReleasedOnAllPaths ==
    /\ Released(events)
    /\ (call.name \in LabelOps /\ request.sent) => "request" \in Range(events)
    /\ (call.name \in LabelOps /\ remoteOutcome # "none") => request.sent

C7_Witness ==
    /\ call.name = "add_label"
    /\ remoteOutcome = "HttpError"
    /\ events = <<"request", "close">>

\* C8: download issues a request only when an id is set and data is not present,
\* and once a download has stored a decoded payload a later download issues no
\* request and leaves the data unchanged.
C8_DownloadFetchesOnce ==
    [][(call'.name = "download" /\ nOps' # nOps) =>
          /\ events' # << >> => (att.id # "None" /\ ~TruthyVal(att.data))
          /\ stored => (events' = << >> /\ att' = att)]_vars

DownloadErrors == {"HttpError", "binascii.Error", "TypeError_message_id"}

SavePath(c) == IF c.filepath = "None" THEN Filename ELSE c.filepath

\* C9: a save whose download, if any, raised nothing: to an existing path without
\* overwrite it raises FileExistsError and leaves the file unchanged; to an existing
\* path with overwrite=True it succeeds and the file holds the attachment's bytes;
\* with data absent it downloads first.
C9_SaveConflict ==
    [][(call'.name = "save" /\ nOps' # nOps /\ result' \notin DownloadErrors) =>
          /\ (files[SavePath(call')].exists /\ ~call'.overwrite) =>
                (result' = "FileExistsError" /\ files' = files)
          /\ (files[SavePath(call')].exists /\ call'.overwrite) =>
                /\ result' = "None"
                /\ att'.data.type = "bytes"
                /\ files'[SavePath(call')] = [exists |-> TRUE, bytes |-> att'.data.val]
          /\ (~TruthyVal(att.data) /\ att.id # "None" /\ message_id # "None") =>
                "request" \in Range(events')]_vars

\* C10: content extraction ends without error for every part tree, a part with no
\* body or no body data and no children included.
C10_ContentNeverRaises == content.raises = "none"

\* The parts reached from a list of parts in depth-first document order, going
\* below a part only when its mimeType is neither text/plain nor text/html.
RECURSIVE Reached(_)
Reached(kids) ==
    IF kids = << >> THEN << >>
    ELSE <<Head(kids)>>
         \o (IF Head(kids).mimeType \in TextTypes THEN << >> ELSE Reached(Head(kids).parts))
         \o Reached(Tail(kids))

HasData(part) == part.body.present /\ TruthyVal(part.body.data)

\* The decoded bodies of the reached parts of one mimeType that have body data,
\* joined with spaces.
Expected(root, key) ==
    LET Wanted(part) == part.mimeType = key /\ HasData(part)
        found == SelectSeq(Reached(root.parts), Wanted)
    IN  Join([i \in 1..Len(found) |-> DecodeText(found[i].body.data.val)])

Named(p) ==
    LET WithName(c) == c.filename.type = "str" /\ c.filename.val # << >>
    IN  SelectSeq(p.parts, WithName)

\* C12: attachments returns, without error, one Attachment per direct child with a
\* non-empty filename, in child order, with "/" replaced by "_" in the filename,
\* mimeType "" when absent, the attachment id when the body has one and the inline
\* data otherwise; has_attachments is true exactly when the part or a direct child
\* has a filename.
C12_AttachmentsListed ==
    /\ call.name = "attachments" =>
          /\ result = "list"
          /\ Len(listing) = Len(Named(parent))
          /\ \A i \in 1..Len(listing) :
                LET c == Named(parent)[i]
                    a == listing[i]
                IN  /\ Slash \notin Range(a.filename.val)
                    /\ Len(a.filename.val) = Len(c.filename.val)
                    /\ \A k \in 1..Len(c.filename.val) :
                          a.filename.val[k] =
                              IF c.filename.val[k] = Slash THEN Underscore
                              ELSE c.filename.val[k]
                    /\ a.mimeType = IF c.mimeType = "None" THEN "" ELSE c.mimeType
                    /\ a.part_id = c.partId
                    /\ c.body.present /\ c.body.attachmentId # "None" =>
                          a.id = c.body.attachmentId
                    /\ c.body.present /\ c.body.attachmentId = "None" =>
                          a.id = "None" /\ a.data = c.body.data
    /\ call.name = "_has_attachments" =>
          (result = "True") =
              (\/ parent.filename.type = "str" /\ parent.filename.val # << >>
               \/ Len(Named(parent)) > 0)

\* The requests before the first failed one, all of them when none failed.
RECURSIVE Resolved(_)
Resolved(reqs) ==
    IF reqs = << >> \/ reqs[1].outcome # "ok" THEN << >>
    ELSE <<reqs[1].id>> \o Resolved(Tail(reqs))

HeldBefore(r) == IF r.labels.none THEN << >> ELSE r.labels.items

\* C13: get_labels issues one get request per label id of the message, in one
\* batch; when a get fails the failure is what the caller gets, and the labels
\* resolved before it stay appended to the resolved-labels list.
C13_ResolveAborts ==
    call.name = "get_labels" =>
        /\ resolve.executed <= 1
        /\ ~labelIds.none =>
              /\ resolve.executed = 1
              /\ [i \in 1..Len(resolve.requests) |-> resolve.requests[i].id] = labelIds.items
        /\ labelIds.none => resolve.requests = << >>
        /\ (\E i \in 1..Len(resolve.requests) : resolve.requests[i].outcome # "ok") =>
              /\ result = "HttpError"
              /\ labels = Some(HeldBefore(resolve) \o Resolved(resolve.requests))
              /\ Len(Resolved(resolve.requests)) < Len(resolve.requests)
        /\ result = "list" =>
              labels = Some(HeldBefore(resolve) \o labelIds.items)

\* The second of two gets fails: the label of the first stays in the list.
C13_Witness ==
    /\ call.name = "get_labels"
    /\ Len(resolve.requests) = 2
    /\ resolve.requests[1].outcome = "ok"
    /\ resolve.requests[2].outcome = "HttpError"
    /\ result = "HttpError"
    /\ labels = Some(<<resolve.requests[1].id>>)

\* C14: a local list that starts without a repeated label has none after any
\* sequence of label edits, succeeding or failing, whatever their lists: a label
\* repeated in a list, or named in both lists, included.
C14_NoRepeatedLabel == ~labelIds.none => NoDup(labelIds.items)

\* add_labels with a list that names an absent label twice has succeeded: the
\* label is in the list once.
C14_Witness ==
    /\ call.name = "add_labels"
    /\ result = "True"
    /\ call.add = Some(<<"STARRED", "STARRED">>)
    /\ ~before.none
    /\ "STARRED" \notin SetOf(before)
    /\ labelIds.items = Append(before.items, "STARRED")

====
